---- MODULE Spec2Model ----
(***************************************************************************)
(* Model of the Dispatcher class of src/dispatcher.h (the latest snapshot, *)
(* lines 441-1042): the command tree, the conversion registry, the         *)
(* registration calls and execute_command.                                 *)
(*                                                                         *)
(* A std::string is a sequence of one-character strings.  Slot indices and *)
(* token indices are 0-based as in the code; a std::vector v is a TLA+     *)
(* sequence, so the code's v[i] is v[i + 1] here.                          *)
(***************************************************************************)
EXTENDS Integers, Sequences, FiniteSets, TLC

VARIABLES nodes, conversions, invalid_args_msg, invalid_command_msg,
          invalid_args_func, invalid_command_func, call

vars == <<nodes, conversions, invalid_args_msg, invalid_command_msg,
          invalid_args_func, invalid_command_func, call>>

regvars == <<nodes, conversions, invalid_args_msg, invalid_command_msg,
             invalid_args_func, invalid_command_func>>

(***************************************************************************)
(* Bounds of the model.                                                    *)
(***************************************************************************)
\* largest number of tokens after the command's path in SpecArgs
MaxArgs == 3

\* largest number of nodes the tree may grow to (the root included)
MaxNodes == 6

\* largest number of names (the first name and the aliases) of one child
MaxNames == 3

\* largest number of tokens after the program name in SpecTree
MaxTreeArgc == 4

\* largest number of tokens after the program name in SpecErr
MaxErrArgc == 2

\* largest number of tokens after the path of the command in SpecSlots
MaxSlotArgc == 2

\* largest number of tokens after the program name in SpecLabels
MaxLabelArgc == 2

(***************************************************************************)
(* Strings.                                                                *)
(***************************************************************************)
Min(a, b) == IF a < b THEN a ELSE b

Range(f) == {f[x] : x \in DOMAIN f}

Digits == {"0", "1", "2", "3", "4", "5", "6", "7", "8", "9"}

DigitVal(c) ==
    CASE c = "0" -> 0 [] c = "1" -> 1 [] c = "2" -> 2 [] c = "3" -> 3
      [] c = "4" -> 4 [] c = "5" -> 5 [] c = "6" -> 6 [] c = "7" -> 7
      [] c = "8" -> 8 [] c = "9" -> 9

\* s.substr(i, s.size() - i), i 0-based
Substr(s, i) == SubSeq(s, i + 1, Len(s))

\* path[idx][0] == '-' : operator[] at size() yields '\0', so "" is no flag
StartsWithDash(s) == Len(s) > 0 /\ s[1] = "-"

(***************************************************************************)
(* std::any, as a tagged value: type "" is an any without a value.  An int *)
(* (or double, or test_t.a) is carried in i, a string in s.                *)
(***************************************************************************)
NoValue == [type |-> "", i |-> 0, s |-> <<>>]

has_value(a) == a.type # ""

IntAny(n) == [type |-> "int", i |-> n, s |-> <<>>]

StrAny(str) == [type |-> "string", i |-> 0, s |-> str]

\* what a string literal passed by value deduces to (const char*)
CStrAny(str) == [type |-> "cstr", i |-> 0, s |-> str]

(***************************************************************************)
(* The conversions.  stoi/stof/stod parse as strtol/strtod do: leading     *)
(* white space, an optional sign, then the longest run of digits; no digit *)
(* is std::invalid_argument, a value outside int is std::out_of_range.     *)
(* The token alphabet has no '.', exponent or hexadecimal prefix, so the   *)
(* floating-point parsers read the same integer prefix, without the range  *)
(* check.  A parse result is [ok, val]; ok = FALSE is a thrown exception.  *)
(***************************************************************************)
INT_MAX == 2147483647

INT_MIN == (0 - INT_MAX) - 1

IsSpace(c) == c = " "

RECURSIVE SkipSpace(_)
SkipSpace(s) == IF Len(s) > 0 /\ IsSpace(s[1]) THEN SkipSpace(Tail(s)) ELSE s

RECURSIVE DigitRun(_)
DigitRun(s) ==
    IF Len(s) > 0 /\ s[1] \in Digits THEN <<s[1]>> \o DigitRun(Tail(s)) ELSE <<>>

RECURSIVE DecValue(_, _)
DecValue(ds, acc) ==
    IF ds = <<>> THEN acc ELSE DecValue(Tail(ds), 10 * acc + DigitVal(ds[1]))

ParseNumber(str, ranged) ==
    LET t    == SkipSpace(str)
        neg  == Len(t) > 0 /\ t[1] = "-"
        sgn  == Len(t) > 0 /\ t[1] \in {"-", "+"}
        body == IF sgn THEN Tail(t) ELSE t
        ds   == DigitRun(body)
        mag  == DecValue(ds, 0)
        v    == IF neg THEN 0 - mag ELSE mag
    IN  IF ds = <<>> THEN [ok |-> FALSE, val |-> 0]
        ELSE IF ranged /\ (v > INT_MAX \/ v < INT_MIN) THEN [ok |-> FALSE, val |-> 0]
        ELSE [ok |-> TRUE, val |-> v]

stoi(str) == ParseNumber(str, TRUE)

stod(str) == ParseNumber(str, FALSE)

\* the four built-in entries of the conversions map
BuiltinConversions ==
    [t \in {"int", "float", "double", "string"} |->
        CASE t = "int" -> "stoi" [] t = "float" -> "stof"
          [] t = "double" -> "stod" [] t = "string" -> "identity"]

\* conversions[type](s): the any the stored lambda returns, or a throw
ApplyConversion(conv, type, str) ==
    CASE conv = "stoi" ->
            LET r == stoi(str)
            IN  [thrown |-> ~r.ok, any |-> IF r.ok THEN IntAny(r.val) ELSE NoValue]
      [] conv \in {"stof", "stod"} ->
            LET r == stod(str)
            IN  [thrown |-> ~r.ok,
                 any |-> IF r.ok THEN [type |-> type, i |-> r.val, s |-> <<>>] ELSE NoValue]
      [] conv = "identity" -> [thrown |-> FALSE, any |-> StrAny(str)]
      \* a caller's converter, as in the tests: T { stoi(s) }, wrapped in std::any
      [] conv = "wrap_stoi" ->
            LET r == stoi(str)
            IN  [thrown |-> ~r.ok,
                 any |-> IF r.ok THEN [type |-> type, i |-> r.val, s |-> <<>>] ELSE NoValue]

\* mutant: a missing conversion counts as a failed one
convert_silent(convs, type, str) ==
    IF type \in DOMAIN convs
    THEN LET r == ApplyConversion(convs[type], type, str)
         IN  [thrown |-> FALSE, any |-> IF r.thrown THEN NoValue ELSE r.any]
    ELSE [thrown |-> FALSE, any |-> NoValue]

\* Dispatcher::convert: [thrown, any]; thrown is the std::logic_error of a
\* missing conversion, a throw inside the converter is caught
convert(convs, type, str) ==
    IF type \in DOMAIN convs
    THEN LET r == ApplyConversion(convs[type], type, str)
         IN  [thrown |-> FALSE, any |-> IF r.thrown THEN NoValue ELSE r.any]
    ELSE [thrown |-> TRUE, any |-> NoValue]

(***************************************************************************)
(* The command tree.  Nodes live in the sequence nodes; a dispatch_node_t* *)
(* is an index into it, 0 is nullptr and Root the node the constructor     *)
(* makes.  std::function members hold a name, "" when empty.               *)
(***************************************************************************)
Root == 1

NoFunc == [id |-> "", sig |-> <<>>]

\* the empty std::unordered_map of an arg_t
NoFlags == [f \in {} |-> NoValue]

\* arg_t(T&&): only the type is set
arg_t(type) == [flags |-> NoFlags, def |-> NoValue, name |-> <<>>, type |-> type]

\* new dispatch_node_t(): value-initialised, so num_args is 0
dispatch_node_t ==
    [execute |-> NoFunc, num_args |-> 0, args |-> <<>>, next |-> <<>>,
     invalid_command_msg |-> "", invalid_args_msg |-> "",
     invalid_command_func |-> "", invalid_args_func |-> ""]

\* dispatch_node_t::find_next: the first child one of whose names is name
find_next(ns, cur, name) ==
    LET nx   == ns[cur].next
        hits == {i \in 1..Len(nx) : name \in Range(nx[i].names)}
    IN  IF hits = {} THEN 0
        ELSE nx[CHOOSE i \in hits : \A j \in hits : i <= j].node

\* mutant: the latest name of every child
get_next_latest(ns, cur) ==
    [i \in 1..Len(ns[cur].next) |-> ns[cur].next[i].names[Len(ns[cur].next[i].names)]]

\* dispatch_node_t::get_next: the first name of every child
get_next(ns, cur) == [i \in 1..Len(ns[cur].next) |-> ns[cur].next[i].names[1]]

\* dispatch_node_t::get_names
get_names(ns, cur) == [i \in 1..Len(ns[cur].args) |-> ns[cur].args[i].name]

\* dispatch_node_t::find_flag: [idx, value], idx = -1 when no arg has the flag
find_flag(node, flag) ==
    LET hits == {i \in 0..(node.num_args - 1) : flag \in DOMAIN node.args[i + 1].flags}
    IN  IF hits = {} THEN [idx |-> -1, value |-> NoValue]
        ELSE LET i == CHOOSE h \in hits : \A j \in hits : h <= j
             IN  [idx |-> i, value |-> node.args[i + 1].flags[flag]]

\* Dispatcher::traverse_entire: the node at path, 0 when it throws
RECURSIVE traverse_entire_from(_, _, _)
traverse_entire_from(ns, cur, path) ==
    IF path = <<>> THEN cur
    ELSE LET nxt == find_next(ns, cur, path[1])
         IN  IF nxt = 0 THEN 0 ELSE traverse_entire_from(ns, nxt, Tail(path))

traverse_entire(ns, path) == traverse_entire_from(ns, Root, path)

\* Dispatcher::traverse_until: [idx, cur]
RECURSIVE traverse_until_from(_, _, _, _)
traverse_until_from(ns, cur, path, idx) ==
    IF idx >= Len(path) THEN [idx |-> idx, cur |-> cur]
    ELSE IF StartsWithDash(path[idx + 1]) THEN [idx |-> idx, cur |-> cur]
    ELSE LET nxt == find_next(ns, cur, path[idx + 1])
         IN  IF nxt = 0 THEN [idx |-> idx, cur |-> cur]
             ELSE traverse_until_from(ns, nxt, path, idx + 1)

\* mutant: the walk ends after one token
traverse_until_once(ns, path) ==
    traverse_until_from(ns, Root, SubSeq(path, 1, Min(1, Len(path))), 0)

traverse_until(ns, path) == traverse_until_from(ns, Root, path, 0)

\* Dispatcher::traverse_drill: [nodes, cur]
RECURSIVE traverse_drill_from(_, _, _)
traverse_drill_from(ns, cur, path) ==
    IF path = <<>> THEN [nodes |-> ns, cur |-> cur]
    ELSE LET nxt == find_next(ns, cur, path[1])
         IN  IF nxt # 0 THEN traverse_drill_from(ns, nxt, Tail(path))
             ELSE LET fresh == Len(ns) + 1
                      grown == Append([ns EXCEPT ![cur].next =
                                   Append(@, [names |-> <<path[1]>>, node |-> fresh])],
                                   dispatch_node_t)
                  IN  traverse_drill_from(grown, fresh, Tail(path))

\* mutant: a new child is put in front of the existing children
RECURSIVE traverse_drill_front_from(_, _, _)
traverse_drill_front_from(ns, cur, path) ==
    IF path = <<>> THEN [nodes |-> ns, cur |-> cur]
    ELSE LET nxt == find_next(ns, cur, path[1])
         IN  IF nxt # 0 THEN traverse_drill_front_from(ns, nxt, Tail(path))
             ELSE LET fresh == Len(ns) + 1
                      grown == Append([ns EXCEPT ![cur].next =
                                   <<[names |-> <<path[1]>>, node |-> fresh]>> \o @],
                                   dispatch_node_t)
                  IN  traverse_drill_front_from(grown, fresh, Tail(path))

traverse_drill_front(ns, path) == traverse_drill_front_from(ns, Root, path)

traverse_drill(ns, path) == traverse_drill_from(ns, Root, path)

\* mutant: the node is made anew, and loses its children
add_command_impl_reset(ns, path, func) ==
    LET r == traverse_drill(ns, path)
    IN  [r.nodes EXCEPT ![r.cur] =
            [dispatch_node_t EXCEPT !.execute = func,
                                    !.num_args = Len(func.sig),
                                    !.args = [i \in 1..Len(func.sig) |-> arg_t(func.sig[i])]]]

\* Dispatcher::add_command_impl
add_command_impl(ns, path, func) ==
    LET r == traverse_drill(ns, path)
    IN  [r.nodes EXCEPT ![r.cur].execute = func,
                        ![r.cur].num_args = Len(func.sig),
                        ![r.cur].args = [i \in 1..Len(func.sig) |-> arg_t(func.sig[i])]]

\* dispatch_node_t::add_alias: [found, next]
node_add_alias(node, name, alias) ==
    LET nx   == node.next
        hits == {i \in 1..Len(nx) : name \in Range(nx[i].names)}
    IN  IF hits = {} THEN [found |-> FALSE, next |-> nx]
        ELSE LET i == CHOOSE h \in hits : \A j \in hits : h <= j
             IN  [found |-> TRUE, next |-> [nx EXCEPT ![i].names = Append(@, alias)]]

\* Dispatcher::trim_flag
RECURSIVE trim_flag_from(_, _)
trim_flag_from(s, i) ==
    IF i >= Len(s) THEN s
    ELSE IF s[i + 1] # "-" THEN Substr(s, i)
    ELSE trim_flag_from(s, i + 1)

trim_flag(s) == trim_flag_from(s, 0)

\* Dispatcher::path_to_str
RECURSIVE path_to_str_from(_, _, _, _)
path_to_str_from(path, delim, i, acc) ==
    IF i >= Len(path) THEN acc
    ELSE path_to_str_from(path, delim, i + 1, acc \o delim \o path[i + 1])

path_to_str(path) == path_to_str_from(path, <<" ">>, 1, path[1])

\* Dispatcher::levenshtein: dp[i][j] over the suffixes s1[i..], s2[j..]
RECURSIVE levenshtein_dp(_, _, _, _)
levenshtein_dp(s1, s2, i, j) ==
    IF i = Len(s1) THEN Len(s2) - j
    ELSE IF j = Len(s2) THEN Len(s1) - i
    ELSE Min(Min(levenshtein_dp(s1, s2, i + 1, j + 1)
                    + (IF s1[i + 1] # s2[j + 1] THEN 1 ELSE 0),
                 1 + levenshtein_dp(s1, s2, i, j + 1)),
             1 + levenshtein_dp(s1, s2, i + 1, j))

levenshtein(s1, s2) == levenshtein_dp(s1, s2, 0, 0)

\* mutant: the threshold itself is excluded
find_close_below(names, s, threshold) ==
    SelectSeq(names, LAMBDA name : levenshtein(name, s) < threshold)

\* Dispatcher::find_close
find_close(names, s, threshold) ==
    SelectSeq(names, LAMBDA name : levenshtein(name, s) <= threshold)

\* the lambda invalid_command_func is initialised with: what it writes
builtin_invalid_command_func(path, next, name) ==
    LET closest == find_close(next, name, 2)
    IN  [lead    |-> "Unknown command: ",
         path    |-> path_to_str(path),
         open    |-> " \\033[31m",
         name    |-> name,
         close   |-> "\\033[30m\\n\\n",
         heading |-> IF closest # <<>>
                     THEN IF Len(closest) = 1 THEN "The most similar command is:\\n"
                          ELSE "Similar commands are:\\n"
                     ELSE "Possible commands are:\\n",
         listed  |-> IF closest # <<>> THEN closest ELSE next]

(***************************************************************************)
(* execute_command.                                                        *)
(***************************************************************************)
\* mutant: the dispatcher-wide handler answers before any message
invalid_command_response_func_first(ns, icm, icf, cur, argv, idx, names) ==
    IF ns[cur].invalid_command_func # ""
    THEN [kind |-> "node_func", func |-> ns[cur].invalid_command_func, msg |-> ""]
    ELSE IF ns[cur].invalid_command_msg # ""
    THEN [kind |-> "node_msg", func |-> "", msg |-> ns[cur].invalid_command_msg]
    ELSE IF icf # ""
    THEN [kind |-> "default_func", func |-> icf, msg |-> ""]
    ELSE [kind |-> "default_msg", func |-> "", msg |-> icm]

\* the response of the "check if node can execute" branch: [kind, func, msg, ...]
invalid_command_response(ns, icm, icf, cur, argv, idx, names) ==
    LET path == SubSeq(argv, 1, idx + 1)
        next == get_next(ns, cur)
        name == IF idx < Len(names) THEN names[idx + 1] ELSE <<>>
        none == [lead |-> "", path |-> <<>>, open |-> "", name |-> <<>>, close |-> "",
                 heading |-> "", listed |-> <<>>]
    IN  IF ns[cur].invalid_command_func # ""
        THEN [kind |-> "node_func", func |-> ns[cur].invalid_command_func, msg |-> "",
              path |-> path, next |-> next, name |-> name,
              out |-> IF ns[cur].invalid_command_func = "builtin"
                      THEN builtin_invalid_command_func(path, next, name) ELSE none]
        ELSE IF ns[cur].invalid_command_msg # ""
        THEN [kind |-> "node_msg", func |-> "", msg |-> ns[cur].invalid_command_msg,
              path |-> <<>>, next |-> <<>>, name |-> <<>>, out |-> none]
        ELSE IF icm # ""
        THEN [kind |-> "default_msg", func |-> "", msg |-> icm,
              path |-> <<>>, next |-> <<>>, name |-> <<>>, out |-> none]
        ELSE [kind |-> "default_func", func |-> icf, msg |-> "",
              path |-> path, next |-> next, name |-> name,
              out |-> IF icf = "builtin"
                      THEN builtin_invalid_command_func(path, next, name) ELSE none]

\* the lambda invalid_args_func is initialised with: what it writes
builtin_invalid_args_func(names, converted, path, input) ==
    [lead     |-> "Invalid arguments: ",
     path     |-> path_to_str(path),
     echoed   |-> [i \in 1..Len(converted) |-> [token |-> input[i], red |-> ~converted[i]]],
     expected |-> [i \in 1..Len(names) |->
                     IF names[i] = <<>> THEN [arg |-> i, name |-> <<>>]
                     ELSE [arg |-> 0, name |-> names[i]]]]

\* the response of the "check arguments" branch
invalid_args_response(ns, iam, iaf, cur, argv, idx, names, successes) ==
    LET cur_names == get_names(ns, cur)
        path      == SubSeq(argv, 1, idx + 1)
        none      == [lead |-> "", path |-> <<>>, echoed |-> <<>>, expected |-> <<>>]
    IN  IF ns[cur].invalid_args_func # ""
        THEN [kind |-> "node_func", func |-> ns[cur].invalid_args_func, msg |-> "",
              names |-> cur_names, converted |-> successes, path |-> path, input |-> names,
              out |-> IF ns[cur].invalid_args_func = "builtin"
                      THEN builtin_invalid_args_func(cur_names, successes, path, names)
                      ELSE none]
        ELSE IF ns[cur].invalid_args_msg # ""
        THEN [kind |-> "node_msg", func |-> "", msg |-> ns[cur].invalid_args_msg,
              names |-> <<>>, converted |-> <<>>, path |-> <<>>, input |-> <<>>, out |-> none]
        ELSE IF iam # ""
        THEN [kind |-> "default_msg", func |-> "", msg |-> iam,
              names |-> <<>>, converted |-> <<>>, path |-> <<>>, input |-> <<>>, out |-> none]
        ELSE [kind |-> "default_func", func |-> iaf, msg |-> "",
              names |-> cur_names, converted |-> successes, path |-> path, input |-> names,
              out |-> IF iaf = "builtin"
                      THEN builtin_invalid_args_func(cur_names, successes, path, names)
                      ELSE none]

\* std::vector<bool> flags(args.size()): the bits live in whole 64-bit words
\* that the constructor zero-fills, so an index below the capacity reads or
\* writes a stored bit; with size 0 there is no storage at all
flags_capacity(size) == 64 * ((size + 63) \div 64)

\* "find and update flags".  st = [args, flags, attempted, thrown, steps,
\* scanned]; flags is the set of token indices whose bit is set, scanned the
\* indices the loop has looked at, steps logs what each matched flag token
\* consumed.  Each branch below yields [st, next]: the
\* state after the token at i and the index the loop looks at next.

\* mutant: the value flag swallows the token after it as well
take_value_flag_two(st, f, i) ==
    [st   |-> [st EXCEPT !.args[f.idx + 1] = f.value,
                         !.flags = @ \cup {i + 1},
                         !.steps = Append(@, [token |-> i, slot |-> f.idx,
                                              kind |-> "value", consumed |-> {i, i + 1},
                                              value |-> f.value])],
     next |-> i + 2]

\* the else branch: args[idx] = value
take_value_flag(st, f, i) ==
    [st   |-> [st EXCEPT !.args[f.idx + 1] = f.value,
                         !.steps = Append(@, [token |-> i, slot |-> f.idx,
                                              kind |-> "value", consumed |-> {i},
                                              value |-> f.value])],
     next |-> i + 1]

\* mutant: the value token of a positional flag is not marked in flags
take_positional_flag_unmarked(node, convs, names, st, f, i) ==
    IF i + 1 >= Len(names)
    THEN [st |-> st, next |-> i + 2]
    ELSE [st   |-> [st EXCEPT !.args[f.idx + 1] =
                                  convert(convs, node.args[f.idx + 1].type, names[i + 2]).any,
                              !.attempted[f.idx + 1] = Append(@, i + 1)],
          next |-> i + 2]

\* the branch of a flag without a value: i++, and the token there is converted
take_positional_flag(node, convs, names, st, f, i) ==
    IF i + 1 >= Len(names)
    THEN [st   |-> [st EXCEPT !.steps = Append(@, [token |-> i, slot |-> f.idx,
                                         kind |-> "positional", consumed |-> {i},
                                         value |-> NoValue])],
          next |-> i + 2]
    ELSE
      LET c == convert(convs, node.args[f.idx + 1].type, names[i + 2])
      IN  IF c.thrown
          THEN [st   |-> [st EXCEPT !.flags = @ \cup {i + 1}, !.thrown = TRUE],
                next |-> i + 2]
          ELSE [st   |-> [st EXCEPT !.flags = @ \cup {i + 1},
                                    !.args[f.idx + 1] = c.any,
                                    !.attempted[f.idx + 1] = Append(@, i + 1),
                                    !.steps = Append(@, [token |-> i, slot |-> f.idx,
                                        kind |-> "positional", consumed |-> {i, i + 1},
                                        value |-> c.any])],
                next |-> i + 2]

\* one iteration of the loop
flag_step(node, convs, names, st, i) ==
    LET trimmed == trim_flag(names[i + 1])
        f       == find_flag(node, trimmed)
    IN  IF Len(trimmed) = Len(names[i + 1]) THEN [st |-> st, next |-> i + 1]
        ELSE IF f.idx = -1 THEN [st |-> st, next |-> i + 1]
        ELSE LET st1 == [st EXCEPT !.attempted[f.idx + 1] = Append(@, i),
                                   !.flags = @ \cup {i}]
             IN  IF ~has_value(f.value)
                 THEN take_positional_flag(node, convs, names, st1, f, i)
                 ELSE take_value_flag(st1, f, i)

RECURSIVE find_and_update_flags(_, _, _, _, _)
find_and_update_flags(node, convs, names, i, st) ==
    IF st.thrown \/ i >= Len(names) THEN st
    ELSE LET r == flag_step(node, convs, names, [st EXCEPT !.scanned = @ \cup {i}], i)
         IN  find_and_update_flags(node, convs, names, r.next, r.st)

\* mutant: the slot index never advances
skip_attempted_stuck(attempted, idx) == idx

\* while(idx < args.size() && !attempted[idx].empty()) idx++;
RECURSIVE skip_attempted(_, _)
skip_attempted(attempted, idx) ==
    IF idx < Len(attempted) /\ attempted[idx + 1] # <<>>
    THEN skip_attempted(attempted, idx + 1) ELSE idx

\* "populate regular arguments".  st = [args, flags, attempted, thrown, ub,
\* crashed]; an access outside flags' storage or at args[args.size()] is
\* undefined behaviour, whose outcome is ubo: the process dies ("crash"), an
\* exception leaves execute_command ("throw"), or the access goes unnoticed
\* and the loop goes on ("continue").
RECURSIVE populate_regular(_, _, _, _, _, _, _)
populate_regular(node, convs, names, i, idx, st, ubo) ==
    IF st.thrown \/ st.crashed \/ i >= Len(names) THEN st
    ELSE IF i >= flags_capacity(Len(st.args))
    THEN LET u == [st EXCEPT !.ub = TRUE, !.crashed = (ubo = "crash"),
                             !.thrown = (ubo = "throw")]
         IN  populate_regular(node, convs, names, i + 1, idx, u, ubo)
    ELSE IF i \in st.flags
    THEN populate_regular(node, convs, names, i + 1, idx, st, ubo)
    ELSE
      LET at == skip_attempted(st.attempted, idx)
      IN
      IF at >= Len(st.args)
      THEN LET u == [st EXCEPT !.ub = TRUE, !.crashed = (ubo = "crash"),
                               !.thrown = (ubo = "throw")]
           IN  populate_regular(node, convs, names, i + 1, at, u, ubo)
      ELSE
        LET c == convert(convs, node.args[at + 1].type, names[i + 1])
        IN
        IF c.thrown THEN [st EXCEPT !.thrown = TRUE]
        ELSE populate_regular(node, convs, names, i + 1, at,
               [st EXCEPT !.args[at + 1] = c.any,
                          !.attempted[at + 1] = Append(@, i)], ubo)

\* mutant: the defaults are never filled in
fill_defaults_skipped(node, args) == args

\* "fill in default values"
fill_defaults(node, args) ==
    [i \in 1..Len(args) |->
        IF i <= Len(node.args) /\ ~has_value(args[i]) /\ has_value(node.args[i].def)
        THEN node.args[i].def ELSE args[i]]

\* successes[j] for the tokens attempted by a slot that holds a value
compute_successes(names, args, attempted) ==
    [j \in 1..Len(names) |->
        \E i \in 1..Len(args) : has_value(args[i]) /\ (j - 1) \in Range(attempted[i])]

\* convert_args: std::any_cast<Args>(args[I])... throws std::bad_any_cast
\* unless every any holds exactly the declared type
convert_args_ok(func, args) ==
    \A i \in 1..Len(func.sig) : args[i].type = func.sig[i]

NoCommandResponse ==
    [kind |-> "", func |-> "", msg |-> ""]

\* what a call of execute_command has done when traverse_until returns tu
dispatch_record(argv, tu) ==
    [op |-> "execute_command", argv |-> argv, idx |-> tu.idx, cur |-> tu.cur,
     names |-> <<>>, args |-> <<>>, flags |-> {}, attempted |-> <<>>,
     steps |-> <<>>, scanned |-> {}, successes |-> <<>>, defaulted |-> {},
     terminal |-> "", thrown |-> "", ub |-> FALSE, called |-> <<>>,
     not_found |-> NoCommandResponse, invalid |-> NoCommandResponse]

\* std::vector<std::any> args(cur->num_args); std::vector<std::vector<int>>
\* attempted(args.size());
fresh_args(n) ==
    [args |-> [k \in 1..n |-> NoValue], flags |-> {},
     attempted |-> [k \in 1..n |-> <<>>], thrown |-> FALSE, steps |-> <<>>,
     scanned |-> {}]

\* the slots "fill in default values" has filled
defaulted_slots(raw, args) ==
    {k \in 0..(Len(args) - 1) : ~has_value(raw[k + 1]) /\ has_value(args[k + 1])}

\* "check arguments" and cur->execute(args); seen is the record so far, st
\* the outcome of the two loops, args the vector after the defaults
execute_check(ns, iam, iaf, argv, tu, names, seen, st, args, succ) ==
    IF st.crashed
    THEN [seen EXCEPT !.args = st.args, !.terminal = "CRASHED"]
    ELSE IF st.thrown
    THEN [seen EXCEPT !.args = st.args, !.terminal = "THROWN", !.thrown = "logic_error"]
    ELSE IF \E k \in 1..Len(args) : ~has_value(args[k])
    THEN [seen EXCEPT !.args = args, !.successes = succ,
                      !.defaulted = defaulted_slots(st.args, args),
                      !.terminal = "ARGS_INVALID",
                      !.invalid = invalid_args_response(ns, iam, iaf, tu.cur, argv,
                                                        tu.idx, names, succ)]
    ELSE IF ~convert_args_ok(ns[tu.cur].execute, args)
    THEN [seen EXCEPT !.args = args, !.successes = succ,
                      !.defaulted = defaulted_slots(st.args, args),
                      !.terminal = "THROWN", !.thrown = "bad_any_cast"]
    ELSE [seen EXCEPT !.args = args, !.successes = succ,
                      !.defaulted = defaulted_slots(st.args, args),
                      !.terminal = "EXECUTED",
                      !.called = <<[func |-> ns[tu.cur].execute.id, args |-> args]>>]

\* "fill in default values" and the successes vector, after the loops
execute_defaults(ns, iam, iaf, argv, tu, names, seen, st, args) ==
    execute_check(ns, iam, iaf, argv, tu, names, seen, st, args,
                  compute_successes(names, args, st.attempted))

\* after "populate regular arguments" has ended in st
execute_populated(ns, iam, iaf, argv, tu, names, scan, st) ==
    execute_defaults(ns, iam, iaf, argv, tu, names,
        [dispatch_record(argv, tu) EXCEPT !.names = names, !.flags = st.flags,
                                          !.attempted = st.attempted,
                                          !.steps = scan.steps,
                                          !.scanned = scan.scanned, !.ub = st.ub],
        st, fill_defaults(ns[tu.cur], st.args))

\* after "find and update flags" has ended in st
execute_flagged(ns, convs, iam, iaf, argv, ubo, tu, names, st) ==
    execute_populated(ns, iam, iaf, argv, tu, names, st,
        populate_regular(ns[tu.cur], convs, names, 0, 0,
            [args |-> st.args, flags |-> st.flags, attempted |-> st.attempted,
             thrown |-> st.thrown, ub |-> FALSE, crashed |-> FALSE], ubo))

\* mutant: every node counts as a command
can_execute_any(node) == TRUE

\* cur->execute as a condition: the std::function holds a target
can_execute(node) == node.execute.id # ""

\* execute_command once the path has been followed to tu = [idx, cur]
execute_at(ns, convs, iam, icm, iaf, icf, argv, ubo, tu) ==
    IF ~can_execute(ns[tu.cur])
    THEN [dispatch_record(argv, tu) EXCEPT
             !.terminal = "COMMAND_NOT_FOUND",
             !.not_found = invalid_command_response(ns, icm, icf, tu.cur, argv,
                                                    tu.idx, Tail(argv))]
    ELSE execute_flagged(ns, convs, iam, iaf, argv, ubo, tu,
             SubSeq(Tail(argv), tu.idx + 1, Len(argv) - 1),
             find_and_update_flags(ns[tu.cur], convs,
                 SubSeq(Tail(argv), tu.idx + 1, Len(argv) - 1), 0,
                 fresh_args(ns[tu.cur].num_args)))

\* Dispatcher::execute_command(argc, argv), as the record of one call
execute_command(ns, convs, iam, icm, iaf, icf, argv, ubo) ==
    execute_at(ns, convs, iam, icm, iaf, icf, argv, ubo, traverse_until(ns, Tail(argv)))

(***************************************************************************)
(* The state machine.  call is the record of the call in progress: every   *)
(* public method is one step from "idle", and Return gives control back to *)
(* the caller (also after a caught exception).  A crashed process stops.   *)
(***************************************************************************)
Idle == [op |-> "idle"]

Init ==
    /\ nodes = <<dispatch_node_t>>
    /\ conversions = BuiltinConversions
    /\ invalid_args_msg = ""
    /\ invalid_command_msg = ""
    /\ invalid_args_func = "builtin"
    /\ invalid_command_func = "builtin"
    /\ call = Idle

\* add_command(path, func); replaced is the handler the node held before
AddCommand(path, func) ==
    /\ call.op = "idle"
    /\ Len(add_command_impl(nodes, path, func)) <= MaxNodes
    /\ nodes' = add_command_impl(nodes, path, func)
    /\ call' = [op |-> "add_command", path |-> path, func |-> func, result |-> "ok",
                replaced |-> IF traverse_entire(nodes, path) = 0 THEN ""
                             ELSE nodes[traverse_entire(nodes, path)].execute.id]
    /\ UNCHANGED <<conversions, invalid_args_msg, invalid_command_msg,
                   invalid_args_func, invalid_command_func>>

\* add_conversion<T>(convert)
AddConversion(type, conv) ==
    /\ call.op = "idle"
    /\ conversions' = [t \in DOMAIN conversions \cup {type} |->
                          IF t = type THEN conv ELSE conversions[t]]
    /\ call' = [op |-> "add_conversion", type |-> type, conv |-> conv, result |-> "ok"]
    /\ UNCHANGED <<nodes, invalid_args_msg, invalid_command_msg,
                   invalid_args_func, invalid_command_func>>

\* the body of add_alias once the name to look up has been read
add_alias_lookup(ns, popped, name, alias) ==
    LET cur == traverse_entire(ns, popped)
    IN  IF cur = 0 THEN [result |-> "logic_error", nodes |-> ns]
        ELSE LET r == node_add_alias(ns[cur], name, alias)
             IN  IF r.found
                 THEN [result |-> "ok", nodes |-> [ns EXCEPT ![cur].next = r.next]]
                 ELSE [result |-> "logic_error", nodes |-> ns]

\* add_alias(path, alias): after path.pop_back() the name looked up is
\* path[path.size() - 1] of the shortened path (orig is never used).  With a
\* path of one segment that reads before the start of an empty vector, and
\* with an empty path pop_back itself is undefined: the process dies, or
\* the read yields some string garbage and the call goes on with it.
AddAlias(path, alias, garbage, dies) ==
    /\ call.op = "idle"
    /\ \A n \in 1..Len(nodes) : \A i \in 1..Len(nodes[n].next) :
          Len(nodes[n].next[i].names) < MaxNames
    /\ LET popped == IF path = <<>> THEN <<>> ELSE SubSeq(path, 1, Len(path) - 1)
           ub     == Len(path) <= 1
           name   == IF ub THEN garbage ELSE popped[Len(popped)]
           r      == add_alias_lookup(nodes, popped, name, alias)
       IN  IF ub /\ dies
           THEN /\ nodes' = nodes
                /\ call' = [op |-> "add_alias", path |-> path, alias |-> alias,
                            ub |-> TRUE, result |-> "crashed"]
           ELSE /\ nodes' = r.nodes
                /\ call' = [op |-> "add_alias", path |-> path, alias |-> alias,
                            ub |-> ub, result |-> r.result]
    /\ UNCHANGED <<conversions, invalid_args_msg, invalid_command_msg,
                   invalid_args_func, invalid_command_func>>

\* the node whose args[idx] a registration method changes, 0 when it throws:
\* traverse_entire throws for a missing path, index_failed for idx >= num_args
arg_owner(ns, path, idx) ==
    LET cur == traverse_entire(ns, path)
    IN  IF cur = 0 THEN 0
        ELSE IF idx >= ns[cur].num_args THEN 0
        ELSE cur

\* what a registration method reports to its caller
method_result(cur) == IF cur = 0 THEN "logic_error" ELSE "ok"

\* the outcomes of undefined behaviour
UBOutcomes == {"crash", "throw", "continue"}

\* idx is an int and only idx >= cur->num_args is tested: with a negative idx
\* cur->args[idx] is an access before the start of the vector
arg_outside(ns, path, idx) == traverse_entire(ns, path) # 0 /\ idx < 0

\* what the caller sees of such an access: the process stops, an exception
\* comes out of the garbage object, or the call returns with the write gone
\* to memory that is no arg_t of the tree
outside_result(ubo) ==
    CASE ubo = "crash" -> "crashed" [] ubo = "throw" -> "exception" [] OTHER -> "ok"

\* cur->args[idx].flags[flag]; : operator[] inserts an empty any only when
\* the flag is absent
positional_flag(arg, flag) ==
    [arg EXCEPT !.flags = [f \in DOMAIN arg.flags \cup {flag} |->
                              IF f \in DOMAIN arg.flags THEN arg.flags[f] ELSE NoValue]]

\* cur->args[idx].flags[flag] = value;
value_flag(arg, flag, value) ==
    [arg EXCEPT !.flags = [f \in DOMAIN arg.flags \cup {flag} |->
                              IF f = flag THEN value ELSE arg.flags[f]]]

\* add_positional_flag(path, idx, flag)
AddPositionalFlag(path, idx, flag) ==
    /\ call.op = "idle"
    /\ IF arg_outside(nodes, path, idx)
       THEN /\ nodes' = nodes
            /\ \E ubo \in UBOutcomes :
                  call' = [op |-> "add_positional_flag", path |-> path, idx |-> idx,
                           flag |-> flag, result |-> outside_result(ubo)]
       ELSE LET cur == arg_owner(nodes, path, idx)
            IN  /\ nodes' = IF cur = 0 THEN nodes
                          ELSE [nodes EXCEPT ![cur].args[idx + 1] = positional_flag(@, flag)]
                /\ call' = [op |-> "add_positional_flag", path |-> path, idx |-> idx,
                            flag |-> flag, result |-> method_result(cur)]
    /\ UNCHANGED <<conversions, invalid_args_msg, invalid_command_msg,
                   invalid_args_func, invalid_command_func>>

\* add_value_flag<T>(path, idx, flag, value)
AddValueFlag(path, idx, flag, value) ==
    /\ call.op = "idle"
    /\ IF arg_outside(nodes, path, idx)
       THEN /\ nodes' = nodes
            /\ \E ubo \in UBOutcomes :
                  call' = [op |-> "add_value_flag", path |-> path, idx |-> idx,
                           flag |-> flag, value |-> value, result |-> outside_result(ubo)]
       ELSE LET cur == arg_owner(nodes, path, idx)
            IN  /\ nodes' = IF cur = 0 THEN nodes
                          ELSE [nodes EXCEPT ![cur].args[idx + 1] = value_flag(@, flag, value)]
                /\ call' = [op |-> "add_value_flag", path |-> path, idx |-> idx,
                            flag |-> flag, value |-> value, result |-> method_result(cur)]
    /\ UNCHANGED <<conversions, invalid_args_msg, invalid_command_msg,
                   invalid_args_func, invalid_command_func>>

\* add_default<T>(path, idx, def)
AddDefault(path, idx, def) ==
    /\ call.op = "idle"
    /\ IF arg_outside(nodes, path, idx)
       THEN /\ nodes' = nodes
            /\ \E ubo \in UBOutcomes :
                  call' = [op |-> "add_default", path |-> path, idx |-> idx,
                           def |-> def, result |-> outside_result(ubo)]
       ELSE LET cur == arg_owner(nodes, path, idx)
            IN  /\ nodes' = IF cur = 0 THEN nodes
                          ELSE [nodes EXCEPT ![cur].args[idx + 1] = [@ EXCEPT !.def = def]]
                /\ call' = [op |-> "add_default", path |-> path, idx |-> idx,
                            def |-> def, result |-> method_result(cur)]
    /\ UNCHANGED <<conversions, invalid_args_msg, invalid_command_msg,
                   invalid_args_func, invalid_command_func>>

\* set_arg_name(path, idx, name)
SetArgName(path, idx, name) ==
    /\ call.op = "idle"
    /\ IF arg_outside(nodes, path, idx)
       THEN /\ nodes' = nodes
            /\ \E ubo \in UBOutcomes :
                  call' = [op |-> "set_arg_name", path |-> path, idx |-> idx,
                           name |-> name, result |-> outside_result(ubo)]
       ELSE LET cur == arg_owner(nodes, path, idx)
            IN  /\ nodes' = IF cur = 0 THEN nodes
                          ELSE [nodes EXCEPT ![cur].args[idx + 1] = [@ EXCEPT !.name = name]]
                /\ call' = [op |-> "set_arg_name", path |-> path, idx |-> idx,
                            name |-> name, result |-> method_result(cur)]
    /\ UNCHANGED <<conversions, invalid_args_msg, invalid_command_msg,
                   invalid_args_func, invalid_command_func>>

\* add_specific_invalid_args_message(path, msg)
AddSpecificInvalidArgsMessage(path, msg) ==
    /\ call.op = "idle"
    /\ LET cur == traverse_entire(nodes, path)
       IN  /\ nodes' = IF cur = 0 THEN nodes
                     ELSE [nodes EXCEPT ![cur].invalid_args_msg = msg]
           /\ call' = [op |-> "add_specific_invalid_args_message", path |-> path,
                       result |-> method_result(cur)]
    /\ UNCHANGED <<conversions, invalid_args_msg, invalid_command_msg,
                   invalid_args_func, invalid_command_func>>

\* add_specific_invalid_command_message(path, msg)
AddSpecificInvalidCommandMessage(path, msg) ==
    /\ call.op = "idle"
    /\ LET cur == traverse_entire(nodes, path)
       IN  /\ nodes' = IF cur = 0 THEN nodes
                     ELSE [nodes EXCEPT ![cur].invalid_command_msg = msg]
           /\ call' = [op |-> "add_specific_invalid_command_message", path |-> path,
                       result |-> method_result(cur)]
    /\ UNCHANGED <<conversions, invalid_args_msg, invalid_command_msg,
                   invalid_args_func, invalid_command_func>>

\* add_specific_invalid_args_func(path, func)
AddSpecificInvalidArgsFunc(path, func) ==
    /\ call.op = "idle"
    /\ LET cur == traverse_entire(nodes, path)
       IN  /\ nodes' = IF cur = 0 THEN nodes
                     ELSE [nodes EXCEPT ![cur].invalid_args_func = func]
           /\ call' = [op |-> "add_specific_invalid_args_func", path |-> path,
                       result |-> method_result(cur)]
    /\ UNCHANGED <<conversions, invalid_args_msg, invalid_command_msg,
                   invalid_args_func, invalid_command_func>>

\* add_specific_invalid_command_func(path, func)
AddSpecificInvalidCommandFunc(path, func) ==
    /\ call.op = "idle"
    /\ LET cur == traverse_entire(nodes, path)
       IN  /\ nodes' = IF cur = 0 THEN nodes
                     ELSE [nodes EXCEPT ![cur].invalid_command_func = func]
           /\ call' = [op |-> "add_specific_invalid_command_func", path |-> path,
                       result |-> method_result(cur)]
    /\ UNCHANGED <<conversions, invalid_args_msg, invalid_command_msg,
                   invalid_args_func, invalid_command_func>>

\* add_default_invalid_args_message(msg)
AddDefaultInvalidArgsMessage(msg) ==
    /\ call.op = "idle"
    /\ invalid_args_msg' = msg
    /\ call' = [op |-> "add_default_invalid_args_message", result |-> "ok"]
    /\ UNCHANGED <<nodes, conversions, invalid_command_msg, invalid_args_func,
                   invalid_command_func>>

\* add_default_invalid_command_message(msg)
AddDefaultInvalidCommandMessage(msg) ==
    /\ call.op = "idle"
    /\ invalid_command_msg' = msg
    /\ call' = [op |-> "add_default_invalid_command_message", result |-> "ok"]
    /\ UNCHANGED <<nodes, conversions, invalid_args_msg, invalid_args_func,
                   invalid_command_func>>

\* add_default_invalid_args_func(func)
AddDefaultInvalidArgsFunc(func) ==
    /\ call.op = "idle"
    /\ invalid_args_func' = func
    /\ call' = [op |-> "add_default_invalid_args_func", result |-> "ok"]
    /\ UNCHANGED <<nodes, conversions, invalid_args_msg, invalid_command_msg,
                   invalid_command_func>>

\* add_default_invalid_command_func(func)
AddDefaultInvalidCommandFunc(func) ==
    /\ call.op = "idle"
    /\ invalid_command_func' = func
    /\ call' = [op |-> "add_default_invalid_command_func", result |-> "ok"]
    /\ UNCHANGED <<nodes, conversions, invalid_args_msg, invalid_command_msg,
                   invalid_args_func>>

\* the outcomes of one call: r is the call with every out-of-range access
\* going unnoticed; when there was such an access the build may also have
\* stopped the process or thrown at it
execute_outcomes(argv, r) ==
    \E ubo \in (IF r.ub THEN UBOutcomes ELSE {"continue"}) :
        call' = IF ubo = "continue" THEN r
                ELSE execute_command(nodes, conversions, invalid_args_msg,
                                     invalid_command_msg, invalid_args_func,
                                     invalid_command_func, argv, ubo)

\* execute_command(argc, argv)
ExecuteCommand(argv) ==
    /\ call.op = "idle"
    /\ execute_outcomes(argv, execute_command(nodes, conversions, invalid_args_msg,
                                              invalid_command_msg, invalid_args_func,
                                              invalid_command_func, argv, "continue"))
    /\ UNCHANGED regvars

\* control is back in the caller
Crashed ==
    \/ call.op = "execute_command" /\ call.terminal = "CRASHED"
    \/ call.op \notin {"idle", "execute_command"} /\ call.result = "crashed"

Return ==
    /\ call.op # "idle"
    /\ ~Crashed
    /\ call' = Idle
    /\ UNCHANGED regvars

(***************************************************************************)
(* Inputs.                                                                 *)
(***************************************************************************)
ProgName == <<"p">>

s_test == <<"t", "e", "s", "t">>

s_10 == <<"1", "0">>

s_2 == <<"2">>

s_y == <<"y">>

s_v == <<"v">>

dash_y == <<"-", "y">>

dash_v == <<"-", "v">>

\* handlers, as the name and the signature add_command deduces
func0 == [id |-> "func0", sig |-> <<>>]

func1 == [id |-> "func1", sig |-> <<"int">>]

func2 == [id |-> "func2", sig |-> <<"int", "int">>]

func_t == [id |-> "func_t", sig |-> <<"test_t">>]

\* every argv of a program name and at most n tokens of T
Argvs(T, n) == {<<ProgName>> \o t : t \in UNION {[1..k -> T] : k \in 0..n}}

(***************************************************************************)
(* SpecArgs: one command with flags and defaults, and a command below it.  *)
(***************************************************************************)
ArgsCommands ==
    {[path |-> <<s_test>>, func |-> func2], [path |-> <<s_test>>, func |-> func_t],
     [path |-> <<s_test, s_10>>, func |-> func0]}

ArgsTokens == {s_test, s_10, s_2, dash_y, dash_v}

\* the program name, the path of the command, then at most MaxArgs tokens
ArgsArgvs == {<<ProgName, s_test>> \o t : t \in UNION {[1..k -> ArgsTokens] : k \in 0..MaxArgs}}

ArgsSlots == {0, 1}

NextArgs ==
    \/ \E c \in ArgsCommands : AddCommand(c.path, c.func)
    \/ AddConversion("test_t", "wrap_stoi")
    \/ \E idx \in ArgsSlots : AddPositionalFlag(<<s_test>>, idx, s_y)
    \/ \E idx \in ArgsSlots : AddValueFlag(<<s_test>>, idx, s_v, IntAny(500))
    \/ \E idx \in ArgsSlots : AddDefault(<<s_test>>, idx, IntAny(300))
    \/ \E argv \in ArgsArgvs : ExecuteCommand(argv)
    \/ Return

SpecArgs == Init /\ [][NextArgs]_vars

(***************************************************************************)
(* SpecTree: commands at nested paths, aliases, and dispatch over the      *)
(* labels.                                                                 *)
(***************************************************************************)
s_bar == <<"b", "a", "r">>

s_baz == <<"b", "a", "z">>

s_foo == <<"f", "o", "o">>

s_b == <<"b">>

\* what the read before the start of the vector may yield
s_junk == <<"?">>

TreeCommands ==
    {[path |-> <<s_bar>>, func |-> func1],
     [path |-> <<s_bar, s_baz>>, func |-> func0],
     [path |-> <<s_bar, s_baz>>, func |-> func1],
     [path |-> <<s_bar, s_bar>>, func |-> func0]}

TreePaths == {c.path : c \in TreeCommands}

TreeTokens == {s_bar, s_baz, s_b, s_10}

NextTree ==
    \/ \E c \in TreeCommands : AddCommand(c.path, c.func)
    \/ \E path \in TreePaths, garbage \in {s_bar, s_junk}, dies \in BOOLEAN :
          AddAlias(path, s_b, garbage, dies)
    \/ \E argv \in Argvs(TreeTokens, MaxTreeArgc) : ExecuteCommand(argv)
    \/ Return

SpecTree == Init /\ [][NextTree]_vars

(***************************************************************************)
(* SpecErr: the messages and functions for the two error cases.            *)
(***************************************************************************)
s_bo == <<"b", "o">>

s_ba == <<"b", "a">>

ErrCommands ==
    {[path |-> <<s_bar, s_baz>>, func |-> func0], [path |-> <<s_foo>>, func |-> func1]}

ErrTokens == {s_bar, s_foo, s_bo, s_ba}

ErrMessages == {"", "specific"}

NextErr ==
    \/ \E c \in ErrCommands : AddCommand(c.path, c.func)
    \/ \E msg \in ErrMessages : AddSpecificInvalidArgsMessage(<<s_foo>>, msg)
    \/ \E msg \in ErrMessages : AddSpecificInvalidCommandMessage(<<s_bar>>, msg)
    \/ AddSpecificInvalidArgsFunc(<<s_foo>>, "custom_node")
    \/ AddSpecificInvalidCommandFunc(<<s_bar>>, "custom_node")
    \/ \E msg \in {"", "general"} : AddDefaultInvalidArgsMessage(msg)
    \/ \E msg \in {"", "general"} : AddDefaultInvalidCommandMessage(msg)
    \/ AddDefaultInvalidArgsFunc("custom")
    \/ AddDefaultInvalidCommandFunc("custom")
    \/ \E argv \in Argvs(ErrTokens, MaxErrArgc) : ExecuteCommand(argv)
    \/ Return

SpecErr == Init /\ [][NextErr]_vars

(***************************************************************************)
(* SpecSlots: the four methods that take a slot index, with every index    *)
(* from below 0 to above the arity, on a missing path, on a node without a *)
(* command and on commands of arity 1 and 2, one of them with a slot type  *)
(* whose converter the caller adds; and dispatch with tokens that begin    *)
(* with '-' but name no flag.                                              *)
(***************************************************************************)
s_n == <<"n">>

dash_2 == <<"-", "2">>

func_s == [id |-> "func_s", sig |-> <<"string">>]

SlotCommands ==
    {[path |-> <<s_test>>, func |-> func2], [path |-> <<s_test>>, func |-> func_s],
     [path |-> <<s_test>>, func |-> func_t], [path |-> <<s_test, s_10>>, func |-> func0]}

\* test is a node once either command is added; 10 is never a child of the root
SlotPaths == {<<s_test>>, <<s_10>>}

SlotIndices == (0 - 1)..2

SlotTokens == {s_10, dash_2, dash_y, dash_v}

SlotArgvs ==
    {<<ProgName, s_test>> \o t : t \in UNION {[1..k -> SlotTokens] : k \in 0..MaxSlotArgc}}

NextSlots ==
    \/ \E c \in SlotCommands : AddCommand(c.path, c.func)
    \/ AddConversion("test_t", "wrap_stoi")
    \/ \E path \in SlotPaths, idx \in SlotIndices : AddPositionalFlag(path, idx, s_y)
    \/ \E path \in SlotPaths, idx \in SlotIndices :
          AddValueFlag(path, idx, s_v, IntAny(500))
    \/ \E path \in SlotPaths, idx \in SlotIndices : AddDefault(path, idx, IntAny(300))
    \/ \E path \in SlotPaths, idx \in SlotIndices : SetArgName(path, idx, s_n)
    \/ \E argv \in SlotArgvs : ExecuteCommand(argv)
    \/ Return

SpecSlots == Init /\ [][NextSlots]_vars

(***************************************************************************)
(* SpecLabels: siblings under one parent, a command registered through an  *)
(* alias, and aliases that are new labels or the name of a sibling.        *)
(***************************************************************************)
LabelCommands ==
    {[path |-> <<s_bar>>, func |-> func1],
     [path |-> <<s_bar, s_bar>>, func |-> func0],
     [path |-> <<s_bar, s_baz>>, func |-> func0],
     [path |-> <<s_bar, s_b>>, func |-> func1]}

LabelPaths == {c.path : c \in LabelCommands}

LabelAliases == {s_b, s_baz}

LabelTokens == {s_bar, s_baz, s_b}

NextLabels ==
    \/ \E c \in LabelCommands : AddCommand(c.path, c.func)
    \/ \E path \in LabelPaths, alias \in LabelAliases, garbage \in {s_bar, s_junk},
          dies \in BOOLEAN : AddAlias(path, alias, garbage, dies)
    \/ \E argv \in Argvs(LabelTokens, MaxLabelArgc) : ExecuteCommand(argv)
    \/ Return

SpecLabels == Init /\ [][NextLabels]_vars

(***************************************************************************)
(* Properties.                                                             *)
(***************************************************************************)
Dispatched == call.op = "execute_command"

\* the tokens of the invocation after the program name
Tokens == Tail(call.argv)

\* the registered converter of type turns the token into a value
Convertible(type, token) ==
    /\ type \in DOMAIN conversions
    /\ ~ApplyConversion(conversions[type], type, token).thrown

Converted(type, token) == ApplyConversion(conversions[type], type, token).any

\* the first k tokens are the path of a command of arity N and the rest are
\* exactly N non-flag tokens, each convertible to the type of its slot
RoundTripCase(k) ==
    LET n    == traverse_entire(nodes, SubSeq(Tokens, 1, k))
        rest == SubSeq(Tokens, k + 1, Len(Tokens))
    IN  /\ n # 0
        /\ nodes[n].execute.id # ""
        /\ Len(rest) = nodes[n].num_args
        /\ \A j \in 1..Len(rest) :
              /\ ~StartsWithDash(rest[j])
              /\ Convertible(nodes[n].args[j].type, rest[j])

\* that command's handler ran once, with the converted values in order
RoundTripDone(k) ==
    LET n    == traverse_entire(nodes, SubSeq(Tokens, 1, k))
        rest == SubSeq(Tokens, k + 1, Len(Tokens))
    IN  /\ call.terminal = "EXECUTED"
        /\ call.called = <<[func |-> nodes[n].execute.id,
                            args |-> [j \in 1..Len(rest) |->
                                        Converted(nodes[n].args[j].type, rest[j])]]>>

\* no segment of the path is flag-shaped and the first argument token is
\* not a name of a child of the command's node
RoundTripReachable(k) ==
    LET n == traverse_entire(nodes, SubSeq(Tokens, 1, k))
    IN  /\ \A j \in 1..k : ~StartsWithDash(Tokens[j])
        /\ k < Len(Tokens) => find_next(nodes, n, Tokens[k + 1]) = 0

\* C1 as stated: round-trip dispatch.  For every command registered at a
\* path with arity N and every invocation of the program name, the path and
\* exactly N non-flag tokens convertible to the slots' types, the command's
\* handler is invoked exactly once with the converted values in declared
\* order, and no other handler is.
C1_RoundTrip ==
    Dispatched => \A k \in 0..Len(Tokens) : RoundTripCase(k) => RoundTripDone(k)

\* C1 amended: the same, for a path without a flag-shaped segment and a
\* first argument token that is not a name or alias of a child of the
\* command's node (prefix resolution would consume it as a path segment).
C1_RoundTripNoChildLabel ==
    Dispatched =>
        \A k \in 0..Len(Tokens) :
            RoundTripCase(k) /\ RoundTripReachable(k) => RoundTripDone(k)

\* C1 witness: func2 received the two converted tokens in declared order
C1_Witness ==
    /\ Dispatched
    /\ RoundTripCase(1) /\ RoundTripReachable(1)
    /\ call.called = <<[func |-> "func2", args |-> <<IntAny(10), IntAny(2)>>]>>

\* the node the invocation resolved to holds a command
Resolved == Dispatched /\ call.terminal # "COMMAND_NOT_FOUND"

Slots == 0..(nodes[call.cur].num_args - 1)

Param(i) == nodes[call.cur].args[i + 1]

\* every slot but i holds a value of its declared type
OthersValid(i) ==
    \A j \in Slots \ {i} : call.args[j + 1].type = Param(j).type

\* slot i has a default, no token (flag or positional) went to it, the other
\* slots are valid and no conversion is missing
DefaultCase(i) ==
    /\ has_value(Param(i).def)
    /\ call.attempted[i + 1] = <<>>
    /\ call.thrown # "logic_error"
    /\ OthersValid(i)

\* the handler ran and received the default of slot i in position i
DefaultDone(i) ==
    /\ call.terminal = "EXECUTED"
    /\ Len(call.called) = 1
    /\ call.called[1].args[i + 1] = Param(i).def

FlagTokens == {call.steps[k].token : k \in 1..Len(call.steps)}

\* the tokens given to slot i as a value: positionally, or following a
\* positional flag
ValueTokens(i) == Range(call.attempted[i + 1]) \ FlagTokens

\* C4: a supplied token overrides a default.  Whenever an invocation
\* assigns a token to slot i, positionally or as the value following a
\* positional flag, the default of slot i is not the value the handler
\* receives for slot i, whatever the token is.
C4_TokenOverridesDefault ==
    Resolved /\ call.terminal = "EXECUTED" =>
        \A i \in Slots : ValueTokens(i) # {} => i \notin call.defaulted

\* path with its final segment replaced by alias
Aliased(path, alias) == SubSeq(path, 1, Len(path) - 1) \o <<alias>>

\* C2: alias equivalence.  After add_alias(path, alias) on an existing path
\* of length >= 1 the alias is in the label-set of the child the final
\* segment names under the path's parent: the path with its final segment
\* replaced by alias resolves to the node the path resolved to.
C2_AliasEquivalence ==
    [][call'.op = "add_alias" /\ traverse_entire(nodes, call'.path) # 0
          => /\ call'.result = "ok"
             /\ traverse_entire(nodes', Aliased(call'.path, call'.alias))
                   = traverse_entire(nodes, call'.path)]_vars

\* the flag name of token i of the invocation, <<>> when it is not
\* flag-shaped (no leading dash, or nothing but dashes)
FlagName(i) ==
    IF Len(trim_flag(call.names[i + 1])) < Len(call.names[i + 1])
    THEN trim_flag(call.names[i + 1]) ELSE <<>>

TokenIndices == 0..(Len(call.names) - 1)

\* slot s of the command has the flag of token i, as a value flag or as a
\* positional flag
HasValueFlag(s, i) ==
    /\ FlagName(i) \in DOMAIN Param(s).flags
    /\ has_value(Param(s).flags[FlagName(i)])

HasPositionalFlag(s, i) ==
    /\ FlagName(i) \in DOMAIN Param(s).flags
    /\ ~has_value(Param(s).flags[FlagName(i)])

\* token i names a flag of some slot
IsFlagToken(i) == \E s \in Slots : FlagName(i) \in DOMAIN Param(s).flags

\* no slot below s has a flag of the name of token i
FirstWithFlag(s, i) == \A k \in Slots : k < s => FlagName(i) \notin DOMAIN Param(k).flags

\* slot s was given no token outside T
OnlyTokens(s, T) == Range(call.attempted[s + 1]) \subseteq T

\* the value flag at token i gave slot s its value and consumed token i
\* alone: the next token, unless it names a flag itself, is left for the
\* positional pass
ValueFlagDone(s, i) ==
    /\ i \in call.flags
    /\ i \in Range(call.attempted[s + 1])
    /\ OnlyTokens(s, {i}) => call.args[s + 1] = Param(s).flags[FlagName(i)]
    /\ (i + 1) \in TokenIndices /\ ~IsFlagToken(i + 1)
          => /\ (i + 1) \notin call.flags
             /\ (i + 1) \notin Range(call.attempted[s + 1])

\* C5 as stated: value flag.  When a token's flag name matches a value flag
\* registered with add_value_flag(path, idx, flag, value), slot idx is
\* assigned the fixed value and exactly that token is consumed; the token
\* after it is not consumed by it and stays available positionally.
C5_ValueFlag ==
    Resolved =>
        \A i \in TokenIndices : \A s \in Slots :
            HasValueFlag(s, i) => ValueFlagDone(s, i)

\* C5 amended: the same, for a token the flag scan examines (it is not
\* taken as the value of a preceding positional flag and no exception has
\* ended the scan before it) and the lowest slot that has a flag of that
\* name.
C5_ValueFlagScanned ==
    Resolved =>
        \A i \in TokenIndices : \A s \in Slots :
            HasValueFlag(s, i) /\ i \in call.scanned /\ FirstWithFlag(s, i)
                => ValueFlagDone(s, i)

\* C5 witness: -v gave slot 1 the value 500 and the token after it went to
\* slot 0
C5_Witness ==
    /\ Resolved
    /\ call.names = <<dash_v, s_10>>
    /\ 1 \in Slots
    /\ HasValueFlag(1, 0) /\ FirstWithFlag(1, 0) /\ 0 \in call.scanned
    /\ call.called = <<[func |-> "func2", args |-> <<IntAny(10), IntAny(500)>>]>>

\* the positional flag at token i gave slot s the token after it: the two
\* tokens are consumed and go to no other slot, a third is not consumed
PositionalFlagDone(s, i) ==
    /\ {i, i + 1} \subseteq call.flags
    /\ {i, i + 1} \subseteq Range(call.attempted[s + 1])
    /\ \A k \in Slots \ {s} : Range(call.attempted[k + 1]) \cap {i, i + 1} = {}
    /\ OnlyTokens(s, {i, i + 1}) /\ Convertible(Param(s).type, call.names[i + 2])
          => call.args[s + 1] = Converted(Param(s).type, call.names[i + 2])
    /\ (i + 2) \in TokenIndices /\ ~IsFlagToken(i + 2) => (i + 2) \notin call.flags

\* C6 as stated: positional flag.  When a token's flag name matches a flag
\* registered with add_positional_flag(path, idx, flag) and a token follows
\* it, that token becomes the raw value of slot idx and exactly the two
\* tokens are consumed; neither is assigned positionally to another slot.
C6_PositionalFlag ==
    Resolved =>
        \A i \in TokenIndices : \A s \in Slots :
            HasPositionalFlag(s, i) /\ (i + 1) \in TokenIndices
                => PositionalFlagDone(s, i)

\* C6 amended: the same, for a token the flag scan examines, the lowest
\* slot that has a flag of that name, and a slot whose declared type has a
\* registered conversion.
C6_PositionalFlagScanned ==
    Resolved =>
        \A i \in TokenIndices : \A s \in Slots :
            /\ HasPositionalFlag(s, i) /\ (i + 1) \in TokenIndices
            /\ i \in call.scanned /\ FirstWithFlag(s, i)
            /\ Param(s).type \in DOMAIN conversions
            => PositionalFlagDone(s, i)

\* C6 witness: -y 2 gave slot 1 the value 2, and 10 went to slot 0
C6_Witness ==
    /\ Resolved
    /\ call.names = <<dash_y, s_2, s_10>>
    /\ 1 \in Slots
    /\ HasPositionalFlag(1, 0) /\ FirstWithFlag(1, 0) /\ 0 \in call.scanned
    /\ call.called = <<[func |-> "func2", args |-> <<IntAny(10), IntAny(2)>>]>>

\* the child labels of the node resolution stopped at, and the unmatched
\* token ("" when the tokens ran out)
Labels == [i \in 1..Len(nodes[call.cur].next) |-> nodes[call.cur].next[i].names[1]]

Unmatched == IF call.idx < Len(Tokens) THEN Tokens[call.idx + 1] ELSE <<>>

Front(a) == SubSeq(a, 1, Len(a) - 1)

\* the Levenshtein distance by its definition: the cheapest of deleting,
\* inserting or substituting the last character
RECURSIVE EditDistance(_, _)
EditDistance(a, b) ==
    IF a = <<>> THEN Len(b)
    ELSE IF b = <<>> THEN Len(a)
    ELSE Min(Min(EditDistance(Front(a), b) + 1, EditDistance(a, Front(b)) + 1),
             EditDistance(Front(a), Front(b))
                 + (IF a[Len(a)] = b[Len(b)] THEN 0 ELSE 1))

Similar == {l \in Range(Labels) : EditDistance(l, Unmatched) <= 2}

\* the built-in unknown-command response was written
DefaultNotFound ==
    /\ Dispatched
    /\ call.terminal = "COMMAND_NOT_FOUND"
    /\ call.not_found.func = "builtin"

\* C7: suggestion threshold.  In the default unknown-command response a
\* child label of the stopping node is listed as similar if and only if its
\* edit distance to the unmatched token is at most 2; when none is, every
\* child label is listed; one match and several matches have their own
\* headings.
C7_SuggestionThreshold ==
    DefaultNotFound =>
        /\ Similar # {} =>
              /\ Range(call.not_found.out.listed) = Similar
              /\ call.not_found.out.heading =
                    IF Cardinality(Similar) = 1 THEN "The most similar command is:\\n"
                    ELSE "Similar commands are:\\n"
        /\ Similar = {} =>
              /\ call.not_found.out.listed = Labels
              /\ call.not_found.out.heading = "Possible commands are:\\n"

\* C7 witness: bo is at distance 2 of both bar and foo, and both are listed
C7_Witness ==
    /\ DefaultNotFound
    /\ Unmatched = s_bo
    /\ Similar = {s_bar, s_foo}
    /\ call.not_found.out.heading = "Similar commands are:\\n"

\* add_command on a path whose node holds a command leaves every node in
\* place, with its children, their label-sets and their order, and puts the
\* new handler and its arity at the node
ReplacesDescriptor ==
    call'.op = "add_command" /\ traverse_entire(nodes, call'.path) # 0 =>
        LET n == traverse_entire(nodes, call'.path)
        IN  nodes[n].execute.id # "" =>
               /\ Len(nodes') = Len(nodes)
               /\ \A m \in 1..Len(nodes) : nodes'[m].next = nodes[m].next
               /\ \A m \in 1..Len(nodes) : m # n => nodes'[m] = nodes[m]
               /\ traverse_entire(nodes', call'.path) = n
               /\ nodes'[n].execute = call'.func
               /\ nodes'[n].num_args = Len(call'.func.sig)
               /\ Len(nodes'[n].args) = Len(call'.func.sig)

\* nothing but add_command changes the handler of a node
KeepsDescriptors ==
    call'.op # "add_command" =>
        /\ Len(nodes') = Len(nodes)
        /\ \A m \in 1..Len(nodes) : nodes'[m].execute = nodes[m].execute

\* a dispatch that runs a handler runs the one its node holds, once, with
\* as many values as that handler takes
InvokesDescriptor ==
    Dispatched /\ call.called # <<>> =>
        /\ Len(call.called) = 1
        /\ call.called[1].func = nodes[call.cur].execute.id
        /\ Len(call.called[1].args) = Len(nodes[call.cur].execute.sig)

\* C8: re-registration.  add_command on a path that already holds a command
\* replaces the descriptor at that node (later dispatches invoke only the
\* second handler, with its arity) and leaves the tree structure as it was:
\* no node created or removed, same node, same children, label-sets, order.
C8_Reregistration ==
    /\ [][ReplacesDescriptor /\ KeepsDescriptors]_vars
    /\ [](InvokesDescriptor)

\* C8 witness: bar/baz held one handler and was registered again with another
C8_Witness ==
    /\ call.op = "add_command"
    /\ call.path = <<s_bar, s_baz>>
    /\ call.replaced \notin {"", call.func.id}
    /\ nodes[traverse_entire(nodes, call.path)].execute = call.func

\* the response of the dispatch that failed, and what was registered for it
Failed == Dispatched /\ call.terminal \in {"COMMAND_NOT_FOUND", "ARGS_INVALID"}

NotFound == call.terminal = "COMMAND_NOT_FOUND"

Response == IF NotFound THEN call.not_found ELSE call.invalid

NodeFunc ==
    IF NotFound THEN nodes[call.cur].invalid_command_func
    ELSE nodes[call.cur].invalid_args_func

NodeMsg ==
    IF NotFound THEN nodes[call.cur].invalid_command_msg
    ELSE nodes[call.cur].invalid_args_msg

WideFunc == IF NotFound THEN invalid_command_func ELSE invalid_args_func

WideMsg == IF NotFound THEN invalid_command_msg ELSE invalid_args_msg

\* the response is the one of the given kind, and the only one
Responded(kind) ==
    /\ Response.kind = kind
    /\ Response.func = (CASE kind = "node_func" -> NodeFunc
                          [] kind = "default_func" -> WideFunc
                          [] OTHER -> "")
    /\ Response.msg = (CASE kind = "node_msg" -> NodeMsg
                         [] kind = "default_msg" -> WideMsg
                         [] OTHER -> "")

\* C9 as stated: error-response precedence.  One response is produced, in
\* the order node-specific handler, node-specific message, dispatcher-wide
\* handler, dispatcher-wide message; a caller-set dispatcher-wide handler
\* wins over a caller-set dispatcher-wide message.
C9_Precedence ==
    Failed =>
        Responded(IF NodeFunc # "" THEN "node_func"
                  ELSE IF NodeMsg # "" THEN "node_msg"
                  ELSE IF WideFunc # "" THEN "default_func"
                  ELSE "default_msg")

\* C9 amended: the order is node-specific handler, node-specific message,
\* dispatcher-wide message when one is set, dispatcher-wide handler (the
\* built-in one unless replaced); a caller-set dispatcher-wide message wins
\* over a caller-set dispatcher-wide handler.
C9_PrecedenceMessageFirst ==
    Failed =>
        Responded(IF NodeFunc # "" THEN "node_func"
                  ELSE IF NodeMsg # "" THEN "node_msg"
                  ELSE IF WideMsg # "" THEN "default_msg"
                  ELSE "default_func")

\* C9 witness: with a caller's dispatcher-wide handler and message both set
\* and nothing on the node, the message was written
C9_Witness ==
    /\ Failed /\ NotFound
    /\ NodeFunc = "" /\ NodeMsg = ""
    /\ WideFunc = "custom" /\ WideMsg = "general"
    /\ Responded("default_msg")

\* the node prefix resolution returns for the invocation
Stopped == traverse_until(nodes, Tokens).cur

\* C10: command not found.  If the node returned by prefix resolution has
\* no descriptor, execute_command produces a command-not-found response and
\* invokes no handler, even when a command is registered deeper in the tree
\* or later tokens would match a registered path.
C10_CommandNotFound ==
    Dispatched /\ nodes[Stopped].execute.id = "" =>
        /\ call.terminal = "COMMAND_NOT_FOUND"
        /\ call.not_found.kind # ""
        /\ call.invalid.kind = ""
        /\ call.called = <<>>

\* C10 witness: the tokens ran out at bar, which holds no command, while
\* bar/baz does
C10_Witness ==
    /\ Dispatched
    /\ Tokens = <<s_bar>>
    /\ Stopped # Root /\ nodes[Stopped].execute.id = ""
    /\ traverse_entire(nodes, <<s_bar, s_baz>>) # 0
    /\ nodes[traverse_entire(nodes, <<s_bar, s_baz>>)].execute.id # ""
    /\ call.terminal = "COMMAND_NOT_FOUND"

\* slot i holds no value when the assignment is over
Unfilled(i) == Len(call.args) > i /\ ~has_value(call.args[i + 1])

\* a token given to slot i as a value is one the registered converter of the
\* slot's type rejects
BadToken(i) ==
    /\ Param(i).type \in DOMAIN conversions
    /\ \E j \in ValueTokens(i) : ~Convertible(Param(i).type, call.names[j + 1])

\* the invalid-arguments response of the call, the message of the node when
\* that is the only thing set on the node
InvalidArgsReported ==
    /\ call.terminal = "ARGS_INVALID"
    /\ call.invalid.kind # ""
    /\ (nodes[call.cur].invalid_args_msg # "" /\ nodes[call.cur].invalid_args_func = ""
           => call.invalid.kind = "node_msg")

\* C11: invalid arguments.  When flag, positional and default assignment
\* of a resolved command has run to its end (no conversion missing, no
\* out-of-range access) and a slot is left unfilled, or a token assigned to a slot is rejected by the
\* converter of the slot's type, the handler is not invoked and an
\* invalid-arguments response is produced.
C11_InvalidArguments ==
    Resolved /\ ~call.ub /\ call.thrown # "logic_error"
             /\ (\E i \in Slots : Unfilled(i) \/ BadToken(i)) =>
        /\ call.called = <<>>
        /\ InvalidArgsReported

\* token i is flag-shaped and its stripped name is a flag of no slot
UnknownFlag(i) == StartsWithDash(call.names[i + 1]) /\ ~IsFlagToken(i)

\* token i went to slot s in the positional pass
PlacedPositionally(i, s) == i \in Range(call.attempted[s + 1]) /\ i \notin call.flags

\* C12: unknown flags are not placed positionally.  A flag-shaped token
\* whose stripped name is a flag of no Param of the resolved command is
\* never assigned to a slot as a positional value.
C12_UnknownFlagNotPlaced ==
    Resolved => \A i \in TokenIndices, s \in Slots :
                    UnknownFlag(i) => ~PlacedPositionally(i, s)

\* C13: unknown flags are surfaced.  Whenever the argument tokens of a
\* resolved command contain a flag-shaped token that names no flag of the
\* node, the dispatch ends as an error with a diagnostic and the handler is
\* not invoked.
C13_UnknownFlagSurfaced ==
    Resolved /\ (\E i \in TokenIndices : UnknownFlag(i)) =>
        /\ call.called = <<>>
        /\ call.terminal = "ARGS_INVALID"
        /\ call.invalid.kind # ""

\* the last argument token names a positional flag of slot s, the first slot
\* with that name, and the scan examined it as a flag
DanglingFlag(s) ==
    /\ call.names # <<>>
    /\ HasPositionalFlag(s, Len(call.names) - 1)
    /\ FirstWithFlag(s, Len(call.names) - 1)
    /\ \E k \in 1..Len(call.steps) :
          /\ call.steps[k].token = Len(call.names) - 1
          /\ call.steps[k].kind = "positional"

\* C14: missing flag value.  If a positional flag is the last argument
\* token (and the positional tokens before it are not more than the slots
\* left for them), the dispatch ends as an error: a diagnostic is reported
\* and the handler is not invoked, whether or not the slot of the flag has a
\* default, and no token index past the end of the input is touched.
C14_MissingFlagValue ==
    Resolved /\ ~call.ub /\ (\E s \in Slots : DanglingFlag(s)) =>
        /\ call.called = <<>>
        /\ call.terminal = "ARGS_INVALID"
        /\ call.invalid.kind # ""
        /\ call.flags \subseteq TokenIndices
        /\ \A s \in Slots : Range(call.attempted[s + 1]) \subseteq TokenIndices

\* the type of every slot of the resolved command has a conversion
ConversionsRegistered ==
    \A i \in Slots : Param(i).type \in DOMAIN conversions

\* C15: dispatch is non-fatal.  Every call of execute_command (on a tree
\* whose slot types all have a conversion) returns to its caller after it
\* has invoked the resolved handler or emitted a diagnostic: no exception
\* comes out of it and the process is not stopped.
C15_DispatchNonFatal ==
    Dispatched /\ ConversionsRegistered =>
        /\ call.terminal \in {"EXECUTED", "ARGS_INVALID", "COMMAND_NOT_FOUND"}
        /\ call.thrown = ""
        /\ call.terminal = "EXECUTED" => call.called # <<>>
        /\ call.terminal = "ARGS_INVALID" => call.invalid.kind # ""
        /\ call.terminal = "COMMAND_NOT_FOUND" => call.not_found.kind # ""

\* the step is a call of one of the four methods that take a slot index,
\* with a path that resolves to a node
IndexedCall ==
    /\ call.op = "idle"
    /\ call'.op \in {"add_positional_flag", "add_value_flag", "add_default", "set_arg_name"}
    /\ traverse_entire(nodes, call'.path) # 0

\* the arity of the command of node n, 0 when it has none
Arity(n) == IF nodes[n].execute.id = "" THEN 0 ELSE nodes[n].num_args

\* the step changes no Param, or none but Param k of node n
OnlyParam(n, k) ==
    /\ Len(nodes') = Len(nodes)
    /\ \A m \in 1..Len(nodes) :
          /\ Len(nodes'[m].args) = Len(nodes[m].args)
          /\ \A j \in 1..Len(nodes[m].args) :
                <<m, j>> # <<n, k>> => nodes'[m].args[j] = nodes[m].args[j]
          /\ [nodes'[m] EXCEPT !.args = <<>>] = [nodes[m] EXCEPT !.args = <<>>]

\* C16: index validation.  add_positional_flag, add_value_flag, add_default
\* and set_arg_name, on the node at path: when idx is not less than the
\* arity of the command (any idx on a node with no command), the call fails
\* with the out-of-range error and no Param of any node changes; when idx is
\* less than the arity, the call succeeds and changes only the Param at idx
\* of that node.
C16_IndexValidationStep ==
    IndexedCall =>
        LET n == traverse_entire(nodes, call'.path)
        IN  IF nodes[n].execute.id = "" \/ call'.idx >= Arity(n)
            THEN call'.result = "logic_error" /\ OnlyParam(0, 0)
            ELSE call'.result = "ok" /\ OnlyParam(n, call'.idx + 1)

C16_IndexValidation == [][C16_IndexValidationStep]_vars

\* the parent of path exists and has a child one of whose labels is the
\* final segment of path
AliasTarget(path) ==
    /\ traverse_entire(nodes, Front(path)) # 0
    /\ find_next(nodes, traverse_entire(nodes, Front(path)), path[Len(path)]) # 0

\* C17: add_alias failure.  add_alias(path, alias) fails with the
\* path-not-found error and leaves the tree as it was when the parent of
\* path does not exist or has no child labelled with the final segment of
\* path, and succeeds in every other case.
C17_AliasFailureStep ==
    call.op = "idle" /\ call'.op = "add_alias" /\ call'.path # <<>> =>
        IF AliasTarget(call'.path)
        THEN call'.result = "ok"
        ELSE call'.result = "logic_error" /\ nodes' = nodes

C17_AliasFailure == [][C17_AliasFailureStep]_vars

\* every token of the invocation is a plain one, so that the first of them
\* is converted for slot 0
PlainTokens ==
    /\ call.names # <<>>
    /\ \A i \in TokenIndices : ~StartsWithDash(call.names[i + 1])

\* the configuration error: std::logic_error out of execute_command, no
\* handler call and no invalid-arguments response
ConfigurationError ==
    /\ call.terminal = "THROWN" /\ call.thrown = "logic_error"
    /\ call.called = <<>>
    /\ call.invalid.kind = ""

\* the types and tokens convert is applied to
SlotTypes == {"int", "string", "test_t"}

\* convert on its own: a throw for a type without a converter, and otherwise
\* no throw and the converter's value, or no value when the converter threw
ConvertClassifies(type, token) ==
    LET c == convert(conversions, type, token)
    IN  IF type \notin DOMAIN conversions THEN c.thrown
        ELSE /\ ~c.thrown
             /\ c.any = IF Convertible(type, token) THEN Converted(type, token)
                        ELSE NoValue

HandlerNotFound ==
    /\ Dispatched
    /\ call.terminal = "COMMAND_NOT_FOUND"
    /\ call.not_found.kind \in {"node_func", "default_func"}

\* the children of the stopping node
Children == nodes[call.cur].next

\* the segments commands are registered under (an alias is none of them)
Segments == UNION {Range(c.path) : c \in TreeCommands \cup ErrCommands}

\* C19: invalid-command handler inputs.  An invalid-command handler is
\* invoked with (1) the program name followed by exactly the tokens prefix
\* resolution consumed, which lead from the root to the stopping node, (2)
\* for every child of the stopping node, in insertion order, its primary
\* name and never an alias, and (3) the first unconsumed token, or the empty
\* string when the tokens ran out at the node.
C19_HandlerInputs ==
    HandlerNotFound =>
        /\ call.not_found.path = <<ProgName>> \o SubSeq(Tokens, 1, call.idx)
        /\ traverse_entire(nodes, SubSeq(Tokens, 1, call.idx)) = call.cur
        /\ call.cur = Stopped
        /\ Len(call.not_found.next) = Len(Children)
        /\ \A k \in 1..Len(Children) :
              /\ call.not_found.next[k] = Children[k].names[1]
              /\ call.not_found.next[k] \in Segments
              /\ \A l \in 1..Len(Children) : k < l => Children[k].node < Children[l].node
        /\ call.not_found.name = Unmatched
        /\ (call.idx < Len(Tokens)) = (Unmatched # <<>>)

\* C19 witness: the dispatch stopped at a node with two children, one of
\* them with an alias, and with a token left over
C19_Witness ==
    /\ HandlerNotFound
    /\ Len(Children) = 2
    /\ \E k \in 1..2 : Len(Children[k].names) > 1
    /\ call.idx = 1 /\ Len(Tokens) = 2

\* C20: default unknown-command text.  With no custom handler or message
\* set, the text is "Unknown command: ", the program name and the consumed
\* path joined by single spaces, a space, the unmatched token enclosed in
\* double quotes (nothing between them when the tokens ran out), a blank
\* line, a heading, the listed labels one per line behind a tab, and a
\* blank line.
C20_DefaultText ==
    DefaultNotFound =>
        /\ call.not_found.out.lead = "Unknown command: "
        /\ call.not_found.out.path = path_to_str(<<ProgName>> \o SubSeq(Tokens, 1, call.idx))
        /\ call.not_found.out.open = " \""
        /\ call.not_found.out.name = Unmatched
        /\ call.not_found.out.close = "\"\\n\\n"
        /\ call.not_found.out.heading \in
              {"The most similar command is:\\n", "Similar commands are:\\n",
               "Possible commands are:\\n"}
        /\ Range(call.not_found.out.listed) \subseteq Range(Labels)

\* a step that is a call of execute_command
DispatchStep == call.op = "idle" /\ call'.op = "execute_command"

\* the outcomes a dispatch of the same tokens can have in this state
Redispatched ==
    {execute_command(nodes, conversions, invalid_args_msg, invalid_command_msg,
                     invalid_args_func, invalid_command_func, call.argv, ubo) :
        ubo \in UBOutcomes}

\* C21: dispatch does not mutate registration state.  execute_command
\* leaves the tree, every descriptor and Param, every error message and
\* handler and the conversions as they were, for every token sequence and
\* every outcome, and a second dispatch of the same tokens with no
\* registration call in between has the outcome of the first.
C21_DispatchFrame ==
    /\ [][DispatchStep => regvars' = regvars]_vars
    /\ [](Dispatched => Redispatched = {call})

\* C22: per-invocation state machine.  Every call of execute_command ends
\* in exactly one of COMMAND_NOT_FOUND, ARGS_INVALID and EXECUTED; a
\* registered handler is invoked exactly once when it ends in EXECUTED and
\* not at all otherwise; and an error response is emitted in
\* COMMAND_NOT_FOUND and in ARGS_INVALID, and only there.
C22_InvocationStates ==
    Dispatched =>
        /\ call.terminal \in {"COMMAND_NOT_FOUND", "ARGS_INVALID", "EXECUTED"}
        /\ Len(call.called) = (IF call.terminal = "EXECUTED" THEN 1 ELSE 0)
        /\ \A k \in 1..Len(call.called) :
              call.called[k].func = nodes[call.cur].execute.id
        /\ (call.not_found.kind # "") = (call.terminal = "COMMAND_NOT_FOUND")
        /\ (call.invalid.kind # "") = (call.terminal = "ARGS_INVALID")

\* the nodes reached from n by matching every token of toks, in order,
\* against the label-set of a child
RECURSIVE Walk(_, _)
Walk(n, toks) ==
    IF toks = <<>> THEN {n}
    ELSE UNION {Walk(nodes[n].next[k].node, Tail(toks)) :
                   k \in {j \in 1..Len(nodes[n].next) :
                             toks[1] \in Range(nodes[n].next[j].names)}}

\* C23: prefix resolution is greedy and exact.  The node of a dispatch is
\* reached from the root by matching the consumed tokens exactly against
\* child label-sets, no consumed token begins with '-', and the walk stops
\* only when the tokens are exhausted, or the next token begins with '-',
\* or the next token is a label of no child of the node.
C23_PrefixResolution ==
    Dispatched =>
        /\ call.idx \in 0..Len(Tokens)
        /\ call.cur \in Walk(Root, SubSeq(Tokens, 1, call.idx))
        /\ \A k \in 1..call.idx : ~StartsWithDash(Tokens[k])
        /\ \/ call.idx = Len(Tokens)
           \/ StartsWithDash(Tokens[call.idx + 1])
           \/ \A k \in 1..Len(Children) :
                 Tokens[call.idx + 1] \notin Range(Children[k].names)

\* C23 witness: two tokens were consumed as the path of a nested command
\* and the walk stopped at a flag-shaped token
C23_Witness ==
    /\ Dispatched
    /\ call.idx = 2 /\ Len(Tokens) = 3
    /\ StartsWithDash(Tokens[3])
    /\ call.cur = traverse_entire(nodes, <<s_test, s_10>>)

\* the number of leading segments of path that lead from the root along
\* labels of existing children
RECURSIVE Present(_, _)
Present(path, k) ==
    IF k < Len(path) /\ Walk(Root, SubSeq(path, 1, k + 1)) # {} THEN Present(path, k + 1)
    ELSE k

\* a step that is a call of add_command
InsertStep == call.op = "idle" /\ call'.op = "add_command"

\* every node keeps its children, in their order and with their label-sets,
\* and a child it gains comes after them, is a new node and has the single
\* label seg
ChildrenKept(n, segs) ==
    /\ Len(nodes'[n].next) \in {Len(nodes[n].next), Len(nodes[n].next) + 1}
    /\ SubSeq(nodes'[n].next, 1, Len(nodes[n].next)) = nodes[n].next
    /\ \A k \in (Len(nodes[n].next) + 1)..Len(nodes'[n].next) :
          /\ nodes'[n].next[k].node > Len(nodes)
          /\ Len(nodes'[n].next[k].names) = 1
          /\ nodes'[n].next[k].names[1] \in segs

\* a node made by the step has no child, or the single new child
ChildrenNew(n, segs) ==
    /\ Len(nodes'[n].next) <= 1
    /\ \A k \in 1..Len(nodes'[n].next) :
          /\ nodes'[n].next[k].node = n + 1
          /\ nodes'[n].next[k].names \in {<<seg>> : seg \in segs}

\* C24: insert.  Inserting a path makes a node exactly for every segment
\* after the leading ones that match a label (name or alias) of an existing
\* child; a new child has the segment as its only label and comes after the
\* existing children, which keep their order and label-sets; the command is
\* attached to the node at the end of the path; and inserting a path that is
\* present makes no node and changes no label-set.
C24_InsertStep ==
    InsertStep =>
        LET path  == call'.path
            k     == Present(path, 0)
            fresh == {path[i] : i \in (k + 1)..Len(path)}
        IN  /\ Len(nodes') = Len(nodes) + (Len(path) - k)
            /\ \A n \in 1..Len(nodes) : ChildrenKept(n, fresh)
            /\ \A n \in (Len(nodes) + 1)..Len(nodes') : ChildrenNew(n, fresh)
            /\ traverse_entire(nodes', path) # 0
            /\ nodes'[traverse_entire(nodes', path)].execute = call'.func
            /\ k = Len(path) =>
                  /\ traverse_entire(nodes', path) = traverse_entire(nodes, path)
                  /\ \A n \in 1..Len(nodes) : nodes'[n].next = nodes[n].next

C24_Insert == [][C24_InsertStep]_vars

\* C24 witness: bar/b was inserted when b was an alias of a child of bar
\* that had a sibling, and no node was made
C24_Witness ==
    /\ call.op = "add_command"
    /\ call.path = <<s_bar, s_b>>
    /\ traverse_entire(nodes, <<s_bar, s_b>>) = traverse_entire(nodes, <<s_bar, s_bar>>)
    /\ Len(nodes[traverse_entire(nodes, <<s_bar>>)].next) = 2
    /\ call.replaced = "func0"

\* C25: sibling-label uniqueness.  After any sequence of add_command and
\* add_alias calls, under every node each label, name or alias, is in the
\* label-set of at most one child.
C25_SiblingLabelsUnique ==
    \A n \in 1..Len(nodes) : \A j, k \in 1..Len(nodes[n].next) :
        j # k => Range(nodes[n].next[j].names) \cap Range(nodes[n].next[k].names) = {}

\* the indices of the argument tokens, and of the slots, in order
TokenSeq == [i \in 1..Len(call.names) |-> i - 1]

SlotSeq == [i \in 1..nodes[call.cur].num_args |-> i - 1]

\* the tokens that are no flags (they do not begin with '-') and were not
\* consumed as the value of a positional flag, left to right
PlainRest ==
    SelectSeq(TokenSeq, LAMBDA i : i \notin call.flags /\ ~StartsWithDash(call.names[i + 1]))

\* slot s is the slot of a flag of the invocation
Targeted(s) == \E k \in 1..Len(call.steps) : call.steps[k].slot = s

\* the slots no flag of the invocation targets, lowest first
FreeSlots == SelectSeq(SlotSeq, LAMBDA s : ~Targeted(s))

\* C26: positional assignment order.  After the flag scan (one that no
\* missing conversion has ended) the tokens that are neither flags nor
\* values of a positional flag go, left to right, to the lowest slots no
\* flag targets, one token per slot: the k-th such token to the k-th such
\* slot, and to no other; a slot a flag targets receives no positional
\* token.
C26_PositionalOrder ==
    Resolved /\ call.thrown # "logic_error" =>
        /\ \A k \in 1..Min(Len(PlainRest), Len(FreeSlots)) :
              /\ call.attempted[FreeSlots[k] + 1] = <<PlainRest[k]>>
              /\ \A s \in Slots \ {FreeSlots[k]} :
                    PlainRest[k] \notin Range(call.attempted[s + 1])
        /\ \A s \in Slots :
              Targeted(s) => Range(call.attempted[s + 1]) \subseteq call.flags

\* slot i ends the argument resolution with a value that has another type
\* than the slot declares (a default or a value-flag value stored as it was
\* registered)
Mismatched(i) ==
    has_value(call.args[i + 1]) /\ call.args[i + 1].type # Param(i).type

\* C27: no crash on a stored-value type mismatch.  A dispatch (one that
\* indexes no slot out of range and misses no conversion) whose slots end
\* with a value of another type than declared is reported as invalid
\* arguments and nothing is thrown; the handler is invoked only when every
\* slot's value has the declared type.
C27_NoMismatchCrash ==
    Resolved /\ ~call.ub /\ call.thrown # "logic_error" =>
        /\ (\E i \in Slots : Mismatched(i)) =>
              call.terminal = "ARGS_INVALID" /\ call.thrown = ""
        /\ call.called # <<>> => \A i \in Slots : ~Mismatched(i)

\* C28: slot indices stay in range during dispatch.  Whatever the tokens,
\* the argument resolution of a resolved command indexes nothing outside
\* the slots: the positional pass makes no access at args[args.size()] or
\* beyond (nor outside the storage of flags), and every slot a flag writes
\* is one of 0..arity-1.
C28_SlotIndicesInRange ==
    Resolved =>
        /\ ~call.ub
        /\ \A k \in 1..Len(call.steps) : call.steps[k].slot \in Slots

\* the flag groups of the invocation, each as the set of its token indices:
\* a value-flag token, or a positional-flag token with its value token
FlagGroups ==
    {call.steps[k].consumed : k \in {j \in 1..Len(call.steps) :
        call.steps[j].kind = "value" \/ Cardinality(call.steps[j].consumed) = 2}}

\* the argument tokens outside the group S, in their order
RestOf(S) == SelectSeq(TokenSeq, LAMBDA i : i \notin S)

\* the order of the tokens once the group S stands after the first p of the
\* other tokens
MovedOrder(S, p) ==
    SubSeq(RestOf(S), 1, p) \o SelectSeq(TokenSeq, LAMBDA i : i \in S)
        \o SubSeq(RestOf(S), p + 1, Len(RestOf(S)))

\* position p lies between the two tokens of another flag group
Splits(S, p) ==
    /\ p >= 1 /\ p < Len(RestOf(S))
    /\ {RestOf(S)[p], RestOf(S)[p + 1]} \in FlagGroups

\* the dispatch of the same command with the group S moved to position p
MovedDispatch(S, p) ==
    execute_at(nodes, conversions, invalid_args_msg, invalid_command_msg,
               invalid_args_func, invalid_command_func,
               SubSeq(call.argv, 1, call.idx + 1)
                   \o [k \in 1..Len(call.names) |-> call.names[MovedOrder(S, p)[k] + 1]],
               "continue", [idx |-> call.idx, cur |-> call.cur])

\* every flag the scan has matched is a flag group: no positional flag
\* stands last, without a value token
EveryFlagGrouped ==
    \A k \in 1..Len(call.steps) : call.steps[k].consumed \in FlagGroups

\* C29: flag placement independence.  For a resolved command (in a dispatch
\* that indexes no slot out of range and misses no conversion, and whose
\* flags all form groups), moving one flag group to any other position
\* among the argument tokens that splits no other group, the rest keeping
\* its order, changes nothing: every slot receives the same value and the
\* same terminal state is reached.
C29_FlagPlacement ==
    Resolved /\ ~call.ub /\ ConversionsRegistered /\ EveryFlagGrouped =>
        \A S \in FlagGroups : \A p \in 0..Len(RestOf(S)) :
            ~Splits(S, p) =>
                /\ MovedDispatch(S, p).args = call.args
                /\ MovedDispatch(S, p).terminal = call.terminal

\* the flag occurrences of the invocation that target slot s
FlagSources(s) == {k \in 1..Len(call.steps) : call.steps[k].slot = s}

\* the positional tokens tried on slot s
PositionalSources(s) == {i \in Range(call.attempted[s + 1]) : i \notin call.flags}

\* the number of sources of the value of slot s: the default alone when it
\* filled the slot, else the tokens and flags that were assigned to it
SourceCount(s) ==
    IF s \in call.defaulted THEN 1
    ELSE Cardinality(FlagSources(s)) + Cardinality(PositionalSources(s))

\* C30: single assignment per slot.  In a dispatch that reaches EXECUTED
\* (with every index in range and a value for every flag) every slot has
\* a value of exactly one source, a positional token, a flag occurrence or
\* the default, and every argument token is consumed by exactly one slot; no
\* dispatch in which two flag occurrences target the same slot reaches
\* EXECUTED.
C30_SingleAssignment ==
    Resolved /\ ~call.ub /\ EveryFlagGrouped /\ call.terminal = "EXECUTED" =>
        /\ \A s \in Slots : SourceCount(s) = 1
        /\ \A i \in TokenIndices :
              Cardinality({s \in Slots : i \in Range(call.attempted[s + 1])}) = 1
        /\ \A s \in Slots : Cardinality(FlagSources(s)) <= 1

====
